---- MODULE Spec2Model ----
(***************************************************************************)
(* A model of ai_agent.py: the ChatbotAgent.chat turn, the two directive   *)
(* scanners (_extract_code_blocks, _extract_shell_commands) and            *)
(* execute_code_and_commands.                                              *)
(*                                                                         *)
(* Text is a sequence of tokens.  A token is one character of the string,  *)
(* except that the three-backquote fence and the literal "$SHELL:" are one token   *)
(* each, and the fixed phrases the program prints are one token each.      *)
(***************************************************************************)
EXTENDS Naturals, Sequences, FiniteSets

\* ------------------------------------------------------------- bounds
\* Number of chat() calls in a behaviour of Spec.
MaxTurns == 2
\* Number of segments a reply of SpecOneTurn is composed of.
MaxSegs == 3

\* ------------------------------------------------------------- tokens
\* the three-backquote fence, one token
FENCE == "<fence>"
SHELL == "$SHELL:"
NL == "\n"
SP == " "
DOT == "."
\* characters matched by \w
WordChars == {"a", "b", "x", "y"}
IsWord(c) == c \in WordChars
\* characters matched by \s ; SP stands for every whitespace that is not "\n"
IsSpace(c) == c \in {SP, NL}

\* ------------------------------------------------------------ str.strip
RECURSIVE LStrip(_)
LStrip(s) == IF s # <<>> /\ IsSpace(Head(s)) THEN LStrip(Tail(s)) ELSE s

RECURSIVE RStrip(_)
RStrip(s) ==
    IF s # <<>> /\ IsSpace(s[Len(s)]) THEN RStrip(SubSeq(s, 1, Len(s) - 1)) ELSE s

StripIdentity(s) == s
Strip(s) == RStrip(LStrip(s))

\* ------------------------------------------------------------ str.join
RECURSIVE Join(_)
Join(lines) ==
    IF lines = <<>> THEN <<>>
    ELSE IF Len(lines) = 1 THEN lines[1]
    ELSE lines[1] \o <<NL>> \o Join(Tail(lines))

\* ------------------------------------------------- regex building blocks
\* Last index of the maximal run of \w characters that starts at i (i-1: none).
RECURSIVE WordRunEnd(_, _)
WordRunEnd(t, i) ==
    IF i <= Len(t) /\ IsWord(t[i]) THEN WordRunEnd(t, i + 1) ELSE i - 1

\* Last index of the maximal run of \s characters that starts at i (i-1: none).
RECURSIVE SpaceRunEnd(_, _)
SpaceRunEnd(t, i) ==
    IF i <= Len(t) /\ IsSpace(t[i]) THEN SpaceRunEnd(t, i + 1) ELSE i - 1

\* Last index of the run of characters other than "\n" that starts at i.
RECURSIVE LineEnd(_, _)
LineEnd(t, i) ==
    IF i <= Len(t) /\ t[i] # NL THEN LineEnd(t, i + 1) ELSE i - 1

\* Smallest index >= i that holds token c, 0 when there is none.
RECURSIVE FindTok(_, _, _)
FindTok(t, c, i) ==
    IF i > Len(t) THEN 0 ELSE IF t[i] = c THEN i ELSE FindTok(t, c, i + 1)

\* Largest index in lo..hi that holds token c, 0 when there is none.
RECURSIVE FindTokBack(_, _, _, _)
FindTokBack(t, c, lo, hi) ==
    IF hi < lo THEN 0 ELSE IF t[hi] = c THEN hi ELSE FindTokBack(t, c, lo, hi - 1)

\* -------------------------------------------------- _extract_code_blocks
\* (\w+(?:\.\w+)?)\n  after the fence at i: the index of the label's last
\* character, 0 when the label or the newline is missing.
LabelEnd(t, i) ==
    LET j == WordRunEnd(t, i + 1)
        k == IF j + 2 <= Len(t) /\ t[j + 1] = DOT /\ IsWord(t[j + 2])
             THEN WordRunEnd(t, j + 2) ELSE j
    IN  IF j >= i + 1 /\ k + 1 <= Len(t) /\ t[k + 1] = NL THEN k ELSE 0

\* code_blocks[filename] = code  on an insertion-ordered dict, kept as a
\* sequence of [filename, code] in insertion order.
DictSetAppend(d, filename, code) == Append(d, [filename |-> filename, code |-> code])
DictSetKeepFirst(d, filename, code) ==
    IF \E n \in 1..Len(d) : d[n].filename = filename THEN d
    ELSE Append(d, [filename |-> filename, code |-> code])
DictSetMoveToEnd(d, filename, code) ==
    Append(SelectSeq(d, LAMBDA b : b.filename # filename),
           [filename |-> filename, code |-> code])
DictSet(d, filename, code) ==
    IF \E n \in 1..Len(d) : d[n].filename = filename
    THEN [n \in 1..Len(d) |->
            IF d[n].filename = filename
            THEN [filename |-> filename, code |-> code] ELSE d[n]]
    ELSE Append(d, [filename |-> filename, code |-> code])

\* re.finditer(code_pattern, text, re.DOTALL) from index i on, folded into d.
RECURSIVE ScanCodeBlocks(_, _, _)
ScanCodeBlocks(t, i, d) ==
    IF i > Len(t) THEN d
    ELSE LET k == IF t[i] = FENCE THEN LabelEnd(t, i) ELSE 0
             c == IF k > 0 THEN FindTok(t, FENCE, k + 2) ELSE 0
         IN  IF c > 0
             THEN ScanCodeBlocks(t, c + 1,
                      DictSet(d, SubSeq(t, i + 1, k), Strip(SubSeq(t, k + 2, c - 1))))
             ELSE ScanCodeBlocks(t, i + 1, d)

extract_code_blocks(text) == ScanCodeBlocks(text, 1, <<>>)

\* ----------------------------------------------- _extract_shell_commands
\* \$SHELL:\s*(.+)$  with the "$SHELL:" at i: <<first, last>> of group 1,
\* <<0, 0>> when the pattern does not match at i.  \s* is greedy and gives
\* characters back only when nothing but whitespace follows to the end of
\* the text; then group 1 starts at the last whitespace that is not "\n".
ShellGroup(t, i) ==
    LET w == SpaceRunEnd(t, i + 1)
        p == FindTokBack(t, SP, i + 1, w)
    IN  IF w < Len(t) THEN <<w + 1, LineEnd(t, w + 1)>>
        ELSE IF p > 0 THEN <<p, LineEnd(t, p)>>
        ELSE <<0, 0>>

CollectPrepend(cmds, c) == <<c>> \o cmds
Collect(cmds, c) == Append(cmds, c)

\* re.finditer(shell_pattern, text, re.MULTILINE) from index i on.
RECURSIVE ScanShellCommands(_, _, _)
ScanShellCommands(t, i, cmds) ==
    IF i > Len(t) THEN cmds
    ELSE LET g == IF t[i] = SHELL THEN ShellGroup(t, i) ELSE <<0, 0>>
         IN  IF g[1] > 0
             THEN ScanShellCommands(t, g[2] + 1,
                      Collect(cmds, Strip(SubSeq(t, g[1], g[2]))))
             ELSE ScanShellCommands(t, i + 1, cmds)

\* the text outside the matches of code_pattern
RECURSIVE OutsideBlocks(_, _)
OutsideBlocks(t, i) ==
    IF i > Len(t) THEN <<>>
    ELSE LET k == IF t[i] = FENCE THEN LabelEnd(t, i) ELSE 0
             c == IF k > 0 THEN FindTok(t, FENCE, k + 2) ELSE 0
         IN  IF c > 0 THEN OutsideBlocks(t, c + 1)
             ELSE <<t[i]>> \o OutsideBlocks(t, i + 1)
extract_shell_commandsOutsideBlocks(text) ==
    ScanShellCommands(OutsideBlocks(text, 1), 1, <<>>)
extract_shell_commands(text) == ScanShellCommands(text, 1, <<>>)

\* ------------------------------------------------------------- values
\* Python None, as a text no program text equals
None == <<"<None>">>

Message(role, content) == [role |-> role, content |-> content]
ExecutionResult(success, output, error) ==
    [success |-> success, output |-> output, error |-> error]
\* no ExecutionResult yet
NoResult == [success |-> FALSE, output |-> None, error |-> None]

SystemPrompt == <<"Hey there! I'm your coding buddy ...">>

\* the fixed phrases of the f-strings
CreatedLine(filename) == <<"Created/Updated ">> \o filename
RunningLine(cmd) == <<NL, "Running: ">> \o cmd
OutputHeader == <<"Output:">>
CommandFailedMsg(cmd, stderr) ==
    <<"Command failed: ">> \o cmd \o <<NL, "Error: ">> \o stderr
WentWrongMsg(e) == <<"Oops! Something went wrong: ">> \o e
OopsMsg(e) == <<"Oops! ">> \o e
HappenedHeader == <<NL, NL, "Here's what happened:", NL>>
UhOhHeader == <<NL, NL, "Uh oh:", NL>>

\* ------------------------------------------------------------- inputs
UserTexts == {<<"a">>, <<"b", SP, "a">>}
\* str(e) of an exception
ExcTexts == {<<"E">>}

\* what the k-th command of a turn prints, told apart by k
StdoutOf(k) == [i \in 1..k |-> "o"]
StderrOf(k) == [i \in 1..k |-> "e"]
CmdOutcomes(k) ==
    [returncode : {0, 1}, stdout : {<<>>, StdoutOf(k)}, stderr : {<<>>, StderrOf(k)}]

\* replies of the completion endpoint in Spec
ReplyProse == <<"a", SP, "b">>
ReplyFileCmd == <<FENCE, "a", NL, "x", NL, FENCE, NL, SHELL, SP, "a">>
ReplyMixed ==
    <<SHELL, SP, "a", NL, FENCE, "a", NL, "x", NL, FENCE, NL, SHELL, SP, "b", NL,
      FENCE, "b", DOT, "a", NL, "y", FENCE>>
ReplyRewrite ==
    <<FENCE, "a", NL, "y", FENCE, NL, FENCE, "b", NL, "x", FENCE, NL,
      FENCE, "b", DOT, "a", NL, "x", FENCE>>
Replies == {ReplyProse, ReplyFileCmd, ReplyMixed, ReplyRewrite}

\* replies in SpecOneTurn: every sequence of at most MaxSegs segments,
\* each on lines of its own
SegProse == <<"a", SP, "b">>
SegBlockA == <<FENCE, "a", NL, "x", NL, FENCE>>
SegBlockA2 == <<FENCE, "a", NL, SP, "y", FENCE>>
SegBlockShell == <<FENCE, "b", DOT, "a", NL, SHELL, SP, "y", NL, FENCE>>
SegShellX == <<SHELL, SP, "x">>
SegShellY == <<SHELL, "y", SP>>
SegBare == <<FENCE, NL, "a", NL, FENCE>>
Segments ==
    {SegProse, SegBlockA, SegBlockA2, SegBlockShell, SegShellX, SegShellY, SegBare}
ComposedReplies ==
    {Join(segs) : segs \in UNION {[1..n -> Segments] : n \in 0..MaxSegs}}

\* ------------------------------------------------------------- state
VARIABLES
    history,        \* self.conversation_history
    fs,             \* the files of the working directory: name -> content
    pc,             \* where the turn stands
    user_input,     \* chat's argument
    ai_response,    \* chat's local
    code_blocks,    \* chat's local: the dict, in insertion order
    shell_commands, \* chat's local
    output_lines,   \* execute_code_and_commands' local
    nWritten,       \* iterations done of the loop over blocks.items()
    nRun,           \* iterations done of the loop over commands
    completed,      \* execute_code_and_commands' local result: the CompletedProcess
    result,         \* what execute_code_and_commands returned
    returned,       \* what chat returned
    history0,       \* the history when chat was entered
    fs0,            \* the files when chat was entered
    effects,        \* the open() and subprocess.run() calls of the turn in
                    \* progress, in order
    request         \* the "messages" of the request chat sent

vars == <<history, fs, pc, user_input, ai_response, code_blocks, shell_commands,
          output_lines, nWritten, nRun, completed, result, returned, history0, fs0,
          effects, request>>

\* no subprocess.run has returned yet
NoProcess == [returncode |-> 0, stdout |-> None, stderr |-> None]

\* an entry of effects: a call of open() or subprocess.run(), with what it
\* was given and, for a command that ran, its exit status and standard output
Effect(kind, what, returncode, stdout) ==
    [kind |-> kind, what |-> what, returncode |-> returncode, stdout |-> stdout]

NoFiles == [n \in {} |-> <<>>]

\* ChatbotAgent.__init__
Init ==
    /\ history = <<Message("system", SystemPrompt)>>
    /\ fs = NoFiles
    /\ pc = "Idle"
    /\ user_input = None
    /\ ai_response = None
    /\ code_blocks = <<>>
    /\ shell_commands = <<>>
    /\ output_lines = <<>>
    /\ nWritten = 0
    /\ nRun = 0
    /\ completed = NoProcess
    /\ result = NoResult
    /\ returned = None
    /\ history0 = history
    /\ fs0 = fs
    /\ effects = <<>>
    /\ request = <<>>

Turns == Cardinality({i \in 1..Len(history) : history[i].role = "user"})

\* ------------------------------------------- execute_code_and_commands
\* open(filename, 'w') and f.write(code), both succeeding
FsWrite(files, filename, code) ==
    [n \in DOMAIN files \cup {filename} |-> IF n = filename THEN code ELSE files[n]]

\* the files after a write that raised: open() raised (nothing changed), or
\* the file was truncated and only a proper prefix of code reached it
FsWriteRaisedRollback(files, filename, code) == {fs0}
FsWriteRaised(files, filename, code) ==
    {files} \cup {FsWrite(files, filename, SubSeq(code, 1, n)) : n \in 0..(Len(code) - 1)}

\* output_lines after one iteration of the command loop, before the
\* return code is looked at
CommandLinesNoRunning(lines, cmd, stdout) ==
    IF stdout # <<>> THEN lines \o <<OutputHeader, stdout>> ELSE lines
CommandLines(lines, cmd, stdout) ==
    IF stdout # <<>>
    THEN lines \o <<RunningLine(cmd), OutputHeader, stdout>>
    ELSE Append(lines, RunningLine(cmd))

\* if result.returncode != 0
CommandFailedNever(returncode) == FALSE
CommandFailed(returncode) == returncode # 0

\* the return inside the command loop
NonZeroResultNoError(lines, cmd, stderr) == ExecutionResult(FALSE, Join(lines), None)
NonZeroResultNoCmd(lines, cmd, stderr) ==
    ExecutionResult(FALSE, Join(lines), <<"Command failed: ", NL, "Error: ">> \o stderr)
NonZeroResultStderrInLog(lines, cmd, stderr) ==
    ExecutionResult(FALSE, Join(Append(lines, stderr)), CommandFailedMsg(cmd, stderr))
NonZeroResult(lines, cmd, stderr) ==
    ExecutionResult(FALSE, Join(lines), CommandFailedMsg(cmd, stderr))

\* the return after both loops
SuccessResultWithError(lines) == ExecutionResult(TRUE, Join(lines), <<>>)
SuccessResult(lines) == ExecutionResult(TRUE, Join(lines), None)

\* the return of the except clause
RaisedResultNoLog(lines, e) == ExecutionResult(FALSE, <<>>, WentWrongMsg(e))
RaisedResult(lines, e) == ExecutionResult(FALSE, Join(lines), WentWrongMsg(e))

\* --------------------------------------------------- ChatbotAgent.chat
AppendUserTrimming(h, text) == <<h[1], Message("user", text)>>
AppendUserNot(h, text) == h
AppendUserWithSystem(h, text) ==
    h \o <<Message("system", SystemPrompt), Message("user", text)>>
AppendUser(h, text) == Append(h, Message("user", text))

\* final_response
FinalResponseAlwaysLog(reply, res) ==
    reply \o HappenedHeader \o res.output
          \o (IF res.error # None /\ res.error # <<>>
              THEN UhOhHeader \o res.error ELSE <<>>)
FinalResponse(reply, res) ==
    reply \o (IF res.output # <<>> THEN HappenedHeader \o res.output ELSE <<>>)
          \o (IF res.error # None /\ res.error # <<>>
              THEN UhOhHeader \o res.error ELSE <<>>)

\* Remember what we talked about
AppendAssistantFormatted(h, reply) ==
    Append(h, Message("assistant", FinalResponse(reply, result)))
AppendAssistantIfSuccess(h, reply) ==
    IF result.success THEN Append(h, Message("assistant", reply)) ELSE h
AppendAssistantTwice(h, reply) ==
    h \o <<Message("assistant", reply), Message("assistant", FinalResponse(reply, result))>>
AppendAssistant(h, reply) == Append(h, Message("assistant", reply))

\* the "messages" of the request: one {"role", "content"} per message of
\* the history, in its order
RequestMessagesLastOnly(h) ==
    <<[role |-> h[1].role, content |-> h[1].content],
      [role |-> h[Len(h)].role, content |-> h[Len(h)].content]>>
RequestMessages(h) ==
    [i \in 1..Len(h) |-> [role |-> h[i].role, content |-> h[i].content]]

\* chat(user_input), up to the request being sent
ChatStart(text) ==
    /\ pc = "Idle"
    /\ history' = AppendUser(history, text)
    /\ request' = RequestMessages(history')
    /\ user_input' = text
    /\ history0' = history
    /\ fs0' = fs
    /\ effects' = <<>>
    /\ pc' = "AwaitingCompletion"
    /\ UNCHANGED <<fs, ai_response, code_blocks, shell_commands, output_lines,
                   nWritten, nRun, completed, result, returned>>

\* requests.post ... ['content'] gave the reply text
TransportReply(text) ==
    /\ pc = "AwaitingCompletion"
    /\ ai_response' = text
    /\ pc' = "Parsing"
    /\ UNCHANGED <<request, history, fs, user_input, code_blocks, shell_commands, output_lines,
                   nWritten, nRun, completed, result, returned, history0, fs0, effects>>

\* requests.post, raise_for_status or the indexing of the payload raised
TransportFail(e) ==
    /\ pc = "AwaitingCompletion"
    /\ returned' = OopsMsg(e)
    /\ pc' = "Failed"
    /\ UNCHANGED <<request, history, fs, user_input, ai_response, code_blocks, shell_commands,
                   output_lines, nWritten, nRun, completed, result, history0, fs0,
                   effects>>

\* the two scans, and the entry into execute_code_and_commands
ParseSkippingExecutor ==
    /\ pc = "Parsing"
    /\ code_blocks' = extract_code_blocks(ai_response)
    /\ shell_commands' = extract_shell_commands(ai_response)
    /\ output_lines' = <<>>
    /\ nWritten' = 0
    /\ nRun' = 0
    /\ IF code_blocks' = <<>> /\ shell_commands' = <<>>
       THEN /\ pc' = "Done"
            /\ history' = Append(history, Message("assistant", ai_response))
            /\ returned' = ai_response
       ELSE /\ pc' = "Executing"
            /\ UNCHANGED <<history, returned>>
    /\ UNCHANGED <<request, fs, user_input, ai_response, completed, result,
                   history0, fs0, effects>>
Parse ==
    /\ pc = "Parsing"
    /\ code_blocks' = extract_code_blocks(ai_response)
    /\ shell_commands' = extract_shell_commands(ai_response)
    /\ output_lines' = <<>>
    /\ nWritten' = 0
    /\ nRun' = 0
    /\ pc' = "Executing"
    /\ UNCHANGED <<request, history, fs, user_input, ai_response, completed, result, returned,
                   history0, fs0, effects>>

Writing == pc = "Executing" /\ result = NoResult /\ nWritten < Len(code_blocks)
RunningBeforeWrites ==
    pc = "Executing" /\ result = NoResult /\ nRun < Len(shell_commands)
Running ==
    /\ pc = "Executing" /\ result = NoResult
    /\ nWritten = Len(code_blocks) /\ nRun < Len(shell_commands)

\* one iteration of the loop over blocks.items()
WriteFile ==
    /\ Writing
    /\ LET b == code_blocks[nWritten + 1]
       IN  /\ fs' = FsWrite(fs, b.filename, b.code)
           /\ output_lines' = Append(output_lines, CreatedLine(b.filename))
           /\ effects' = Append(effects, Effect("write", b.filename, 0, <<>>))
    /\ nWritten' = nWritten + 1
    /\ UNCHANGED <<request, history, pc, user_input, ai_response, code_blocks, shell_commands,
                   nRun, completed, result, returned, history0, fs0>>

\* an iteration of the loop over blocks.items() in which open or write raised
WriteFileRaise(e) ==
    /\ Writing
    /\ LET b == code_blocks[nWritten + 1]
       IN  /\ fs' \in FsWriteRaised(fs, b.filename, b.code)
           /\ effects' = Append(effects, Effect("write raised", b.filename, 0, <<>>))
    /\ result' = RaisedResult(output_lines, e)
    /\ UNCHANGED <<request, history, pc, user_input, ai_response, code_blocks, shell_commands,
                   output_lines, nWritten, nRun, completed, returned, history0, fs0>>

\* one iteration of the loop over commands, subprocess.run returning o
RunCommand(o) ==
    /\ Running
    /\ LET cmd == shell_commands[nRun + 1]
           lines == CommandLines(output_lines, cmd, o.stdout)
       IN  /\ output_lines' = lines
           /\ effects' = Append(effects, Effect("run", cmd, o.returncode, o.stdout))
           /\ completed' = o
           /\ result' = IF CommandFailed(o.returncode)
                        THEN NonZeroResult(lines, cmd, o.stderr) ELSE result
    /\ nRun' = nRun + 1
    /\ UNCHANGED <<request, history, fs, pc, user_input, ai_response, code_blocks,
                   shell_commands, nWritten, returned, history0, fs0>>

\* an iteration of the loop over commands in which subprocess.run raised
RunCommandRaise(e) ==
    /\ Running
    /\ LET cmd == shell_commands[nRun + 1]
           lines == Append(output_lines, RunningLine(cmd))
       IN  /\ output_lines' = lines
           /\ effects' = Append(effects, Effect("run raised", cmd, 0, <<>>))
           /\ result' = RaisedResult(lines, e)
    /\ nRun' = nRun + 1
    /\ UNCHANGED <<request, history, fs, pc, user_input, ai_response, code_blocks,
                   shell_commands, nWritten, completed, returned, history0, fs0>>

\* both loops ran to their end
ExecuteReturn ==
    /\ pc = "Executing" /\ result = NoResult
    /\ nWritten = Len(code_blocks) /\ nRun = Len(shell_commands)
    /\ result' = SuccessResult(output_lines)
    /\ UNCHANGED <<request, history, fs, pc, user_input, ai_response, code_blocks,
                   shell_commands, output_lines, nWritten, nRun, completed, returned,
                   history0, fs0, effects>>

\* chat, from the return of _handle_execution to its own return
Finish ==
    /\ pc = "Executing" /\ result # NoResult
    /\ history' = AppendAssistant(history, ai_response)
    /\ returned' = FinalResponse(ai_response, result)
    /\ pc' = "Done"
    /\ UNCHANGED <<request, fs, user_input, ai_response, code_blocks, shell_commands,
                   output_lines, nWritten, nRun, completed, result, history0, fs0,
                   effects>>

\* the caller has the returned text; chat's locals are gone
Return ==
    /\ pc \in {"Done", "Failed"}
    /\ pc' = "Idle"
    /\ user_input' = None
    /\ ai_response' = None
    /\ code_blocks' = <<>>
    /\ shell_commands' = <<>>
    /\ output_lines' = <<>>
    /\ nWritten' = 0
    /\ nRun' = 0
    /\ completed' = NoProcess
    /\ result' = NoResult
    /\ returned' = None
    /\ effects' = <<>>
    /\ request' = <<>>
    /\ UNCHANGED <<history, fs, history0, fs0>>

Step ==
    \/ \E e \in ExcTexts : TransportFail(e)
    \/ Parse
    \/ WriteFile
    \/ \E e \in ExcTexts : WriteFileRaise(e)
    \/ \E o \in CmdOutcomes(nRun + 1) : RunCommand(o)
    \/ \E e \in ExcTexts : RunCommandRaise(e)
    \/ ExecuteReturn
    \/ Finish
    \/ Return

\* a session of at most MaxTurns turns, the replies drawn from Replies
Next ==
    \/ \E text \in UserTexts : Turns < MaxTurns /\ ChatStart(text)
    \/ \E text \in Replies : TransportReply(text)
    \/ Step

Spec == Init /\ [][Next]_vars

\* one turn, the reply drawn from ComposedReplies
NextOneTurn ==
    \/ \E text \in UserTexts : Turns = 0 /\ ChatStart(text)
    \/ pc = "AwaitingCompletion" /\ \E text \in ComposedReplies : TransportReply(text)
    \/ Step

SpecOneTurn == Init /\ [][NextOneTurn]_vars

\* chat is synchronous: once the request, a write or a command has returned,
\* the turn goes on to its end
Progress ==
    \/ \E text \in Replies : TransportReply(text)
    \/ \E e \in ExcTexts : TransportFail(e)
    \/ WriteFile
    \/ \E e \in ExcTexts : WriteFileRaise(e)
    \/ \E o \in CmdOutcomes(nRun + 1) : RunCommand(o)
    \/ \E e \in ExcTexts : RunCommandRaise(e)
    \/ ExecuteReturn
    \/ Finish
    \/ Return

\* weak fairness of Parse, its enabling condition written out: Parse is
\* enabled exactly when pc = "Parsing", and it always leaves that position
ParseFair == []<>(pc # "Parsing") \/ []<><<Parse>>_vars

SpecFair == Init /\ [][Next]_vars /\ WF_vars(Progress) /\ ParseFair

\* ------------------------------------------------------------ helpers
IsPrefix(s, t) == Len(s) <= Len(t) /\ SubSeq(t, 1, Len(s)) = s

\* sub occurs in t as a contiguous run
Contains(t, sub) ==
    \E i \in 0..(Len(t) - Len(sub)) : SubSeq(t, i + 1, i + Len(sub)) = sub

\* how often token c occurs in t
Count(t, c) == Cardinality({i \in 1..Len(t) : t[i] = c})

Last(s) == s[Len(s)]

\* the content of a file, None when it does not exist
FileContent(files, name) == IF name \in DOMAIN files THEN files[name] ELSE None

\* the turn's effects of the kinds given, in order
RECURSIVE EffectsOf(_, _)
EffectsOf(es, kinds) ==
    IF es = <<>> THEN <<>>
    ELSE IF Head(es).kind \in kinds
         THEN <<Head(es)>> \o EffectsOf(Tail(es), kinds)
         ELSE EffectsOf(Tail(es), kinds)

\* ------------------------------------------------------------- claims

\* C1: a turn whose transport call returned a reply ends with the history
\* grown by exactly two entries: the user message holding the turn's input,
\* then an assistant message holding the raw reply, not the formatted text
\* that chat returns.
C1_HistoryGrowsByUserAndRawReply ==
    pc = "Done" =>
        history = history0 \o <<Message("user", user_input),
                                Message("assistant", ai_response)>>

\* a second turn ends, and what chat returns differs from the raw reply
C1_Witness ==
    /\ pc = "Done"
    /\ Len(history0) = 3
    /\ returned # ai_response
    /\ Last(history).content = ai_response

\* C2: a turn whose transport call failed ends with the history grown by
\* the user message alone, no file touched, no command run, and chat
\* returning the error text.
C2_TransportFailure ==
    pc = "Failed" =>
        /\ history = Append(history0, Message("user", user_input))
        /\ Last(history).role = "user"
        /\ fs = fs0
        /\ effects = <<>>
        /\ result = NoResult
        /\ returned # None /\ Head(returned) = "Oops! "

\* the transport fails in a turn that follows one which wrote files
C2_Witness ==
    /\ pc = "Failed"
    /\ Len(history0) = 3
    /\ DOMAIN fs # {}

\* C3: every step leaves the history it found as a prefix of the history it
\* leaves: nothing is removed, changed or reordered.
C3_HistoryAppendOnly == [][IsPrefix(history, history')]_vars

\* a failed turn followed by a successful one
C3_Witness ==
    /\ pc = "Done"
    /\ Len(history) = 4
    /\ history[2].role = "user" /\ history[3].role = "user"
    /\ history[4].role = "assistant"

\* the commands of the turn that subprocess.run was called with, in order
Runs == EffectsOf(effects, {"run", "run raised"})

\* the lines a sequence of effects leaves in the log
RECURSIVE LogOf(_)
LogOf(es) ==
    IF es = <<>> THEN <<>>
    ELSE LET e == Head(es)
             own == IF e.kind = "write" THEN <<CreatedLine(e.what)>>
                    ELSE IF e.kind = "write raised" THEN <<>>
                    ELSE IF e.kind = "run" /\ e.stdout # <<>>
                         THEN <<RunningLine(e.what), OutputHeader, e.stdout>>
                    ELSE <<RunningLine(e.what)>>
         IN  own \o LogOf(Tail(es))

InExecutor == pc \in {"Executing", "Done"}

\* from the entry into the executor to the end of the turn, the reply and
\* what was parsed from it stay as they are
ParsedFixed ==
    (pc \in {"Executing", "Done"} /\ pc' \in {"Executing", "Done"}) =>
        UNCHANGED <<ai_response, code_blocks, shell_commands>>

\* the step that hands the parsed directives to the executor
EntersExecutor == pc = "Parsing" /\ pc' = "Executing"

\* C4: when a command exits with a non-zero status, it is the last call the
\* turn makes: the result is a failure whose error names that command, and
\* the log holds the writes and the commands up to it and nothing of a later
\* command.
C4_StopsAtFirstNonZeroExit ==
    InExecutor =>
    \A k \in 1..Len(effects) :
        (effects[k].kind = "run" /\ effects[k].returncode # 0) =>
            /\ k = Len(effects)
            /\ nRun = Len(Runs)
            /\ effects[k].what = shell_commands[nRun]
            /\ \A i \in 1..Len(Runs) : Runs[i].what = shell_commands[i]
            /\ result # NoResult
            /\ ~result.success
            /\ Contains(result.error, shell_commands[nRun])
            /\ result.output = Join(LogOf(effects))
            /\ Count(result.output, "Running: ") = nRun
            /\ \A j \in (nRun + 1)..Len(shell_commands) :
                  /\ ~Contains(result.output, StdoutOf(j))
                  /\ ~Contains(result.error, StdoutOf(j))
                  /\ ~Contains(result.error, StderrOf(j))
                  /\ returned # None =>
                        Count(returned, "Running: ") = nRun

\* the second of three commands exits non-zero after the first printed
C4_Witness ==
    /\ pc = "Done"
    /\ Len(shell_commands) = 3
    /\ Len(Runs) = 2
    /\ Runs[1].stdout # <<>>
    /\ Runs[2].kind = "run" /\ Runs[2].returncode # 0
    /\ ~result.success

\* C5: when the write of a file raises, it is the last call the turn makes:
\* no later file is written, no command is run, the result is a failure with
\* an error, and the log holds exactly the lines of the earlier writes.
C5_WriteFailureAborts ==
    InExecutor =>
    \A j \in 1..Len(effects) :
        effects[j].kind = "write raised" =>
            /\ j = Len(effects)
            /\ \A i \in 1..(j - 1) : effects[i].kind = "write"
            /\ nWritten = j - 1 /\ nRun = 0
            /\ result # NoResult
            /\ ~result.success
            /\ result.error # None /\ \E e \in ExcTexts : Contains(result.error, e)
            /\ result.output =
                  Join([i \in 1..(j - 1) |-> CreatedLine(code_blocks[i].filename)])
            /\ \A i \in (j + 1)..Len(code_blocks) :
                  FileContent(fs, code_blocks[i].filename)
                      = FileContent(fs0, code_blocks[i].filename)

\* the second write raises in a turn that also has commands
C5_Witness ==
    /\ pc = "Done"
    /\ Len(effects) = 2
    /\ effects[1].kind = "write" /\ effects[2].kind = "write raised"
    /\ shell_commands # <<>>
    /\ result.output = CreatedLine(code_blocks[1].filename)

\* C6: an ExecutionResult has an error exactly when its success is false.
ErrorSet(res) == res.error # None /\ res.error # <<>>

C6_ErrorIffNotSuccess ==
    result # NoResult => (ErrorSet(result) <=> ~result.success)

\* the result of a turn in which subprocess.run raised
C6_Witness ==
    /\ result # NoResult
    /\ effects # <<>> /\ Last(effects).kind = "run raised"
    /\ ErrorSet(result)

\* C7: a failed execution does not keep the reply out of the history: the
\* turn still ends Done, its last message is the raw reply, and chat returns
\* the raw reply followed by the error; a turn that got a reply never ends
\* in the except clause.
C7_ExecutionFailureIsData ==
    /\ pc = "Failed" => ai_response = None
    /\ (pc = "Executing" /\ result # NoResult) => ai_response # None
    /\ (pc = "Done" /\ ~result.success) =>
          /\ history = Append(Append(history0, Message("user", user_input)),
                              Message("assistant", ai_response))
          /\ IsPrefix(ai_response, returned)
          /\ Contains(returned, UhOhHeader \o result.error)

\* a second turn ends Done although its command exited non-zero
C7_Witness ==
    /\ pc = "Done"
    /\ ~result.success
    /\ Last(effects).kind = "run"
    /\ Len(history0) = 3

\* the indexes of the "$SHELL:" tokens of a text
ShellPositions(t) == {i \in 1..Len(t) : t[i] = SHELL}

\* the trimmed group 1 of the match that starts at p
CommandAt(t, p) == Strip(SubSeq(t, ShellGroup(t, p)[1], ShellGroup(t, p)[2]))

\* the indexes at which shell_pattern matches when tried there
ShellMatches(t) == {p \in ShellPositions(t) : ShellGroup(t, p)[1] > 0}

\* the i-th smallest element of a set of numbers
Nth(S, i) == CHOOSE p \in S : Cardinality({q \in S : q <= p}) = i

\* cmds holds, in order, the commands of matches of the "$SHELL:" pattern
\* in text t taken from left to right, none inside the line of the one
\* before it; every other match lies inside the line of one of them
CommandsInTextOrder(t, cmds) ==
    LET M == ShellMatches(t)
        n == Len(cmds)
    IN  \E S \in SUBSET M :
            /\ Cardinality(S) = n
            /\ \A i \in 1..n : cmds[i] = CommandAt(t, Nth(S, i))
            /\ \A i \in 1..(n - 1) : ShellGroup(t, Nth(S, i))[2] < Nth(S, i + 1)
            /\ \A p \in M \ S : \E q \in S : q < p /\ p <= ShellGroup(t, q)[2]

\* C8: the commands handed to the executor are, in order, the commands of
\* the "$SHELL:" matches of the reply taken from left to right, none
\* skipped, the leftmost first; a "$SHELL:" that is passed over matches
\* nothing or lies inside the line of an earlier match.  Fenced blocks play
\* no part in it.  The commands run are the first of that list, in its
\* order, and all of it when the executor succeeds.
C8_CommandsRunInTextualOrder ==
    /\ [][/\ EntersExecutor => CommandsInTextOrder(ai_response', shell_commands')
          /\ ParsedFixed]_vars
    /\ [](InExecutor =>
             /\ Len(Runs) <= Len(shell_commands)
             /\ \A i \in 1..Len(Runs) : Runs[i].what = shell_commands[i]
             /\ (result # NoResult /\ result.success) =>
                    Len(Runs) = Len(shell_commands))

\* two commands run with a fenced file block between their lines
C8_Witness ==
    /\ pc = "Done"
    /\ ai_response = Join(<<SegShellY, SegBlockA, SegShellX>>)
    /\ Len(Runs) = 2
    /\ Runs[1].what = <<"y">> /\ Runs[2].what = <<"x">>
    /\ Len(code_blocks) = 1

\* the turn's command that failed, if any: the index in effects
FailedRuns ==
    {k \in 1..Len(effects) :
        \/ effects[k].kind = "run raised"
        \/ effects[k].kind = "run" /\ effects[k].returncode # 0}

\* C9 as stated: whichever way a command fails, no command follows it, the
\* error holds its command line and its standard error, and the log keeps
\* what the earlier commands printed.
C9_ErrorNamesFailingCommand ==
    InExecutor =>
    \A k \in FailedRuns :
        /\ k = Len(effects)
        /\ result # NoResult /\ ~result.success
        /\ Contains(result.error, effects[k].what)
        /\ effects[k].kind = "run" => Contains(result.error, completed.stderr)
        /\ result.output = Join(LogOf(effects))

\* C9 as amended: after a non-zero exit the error holds the command line and
\* its standard error; after subprocess.run raised the error is the generic
\* text with the exception's own text, and the command line is found only in
\* the last "Running:" line of the log.  Either way no command follows and
\* the log keeps what the earlier commands printed.
C9_ErrorOfFailingCommand ==
    InExecutor =>
    \A k \in FailedRuns :
        /\ k = Len(effects)
        /\ effects[k].what = shell_commands[nRun]
        /\ result # NoResult /\ ~result.success
        /\ result.output = Join(LogOf(effects))
        /\ \A i \in 1..(k - 1) :
              (effects[i].kind = "run" /\ effects[i].stdout # <<>>) =>
                  Contains(result.output, effects[i].stdout)
        /\ effects[k].kind = "run" =>
              /\ Contains(result.error, effects[k].what)
              /\ Contains(result.error, completed.stderr)
              /\ result.error = CommandFailedMsg(effects[k].what, completed.stderr)
        /\ effects[k].kind = "run raised" =>
              /\ \E e \in ExcTexts : result.error = WentWrongMsg(e)
              /\ Last(output_lines) = RunningLine(effects[k].what)

\* subprocess.run raises for the second of three commands, after the first
\* printed and wrote to standard error
C9_Witness ==
    /\ pc = "Done"
    /\ Len(Runs) = 2
    /\ Runs[1].stdout # <<>> /\ completed.stderr # <<>>
    /\ Runs[2].kind = "run raised"
    /\ ~Contains(result.error, Runs[2].what)
    /\ Len(shell_commands) = 3

\* a text holds a fenced block with a label: fence, label, newline, any
\* content, fence
IsLabel(s) ==
    /\ s # <<>>
    /\ \A i \in 1..Len(s) : IsWord(s[i]) \/ s[i] = DOT
    /\ Count(s, DOT) <= 1
    /\ IsWord(s[1]) /\ IsWord(s[Len(s)])

HasLabeledBlock(t) ==
    \E i \in 1..Len(t) :
        /\ t[i] = FENCE
        /\ \E k \in (i + 1)..(Len(t) - 1) :
              /\ t[k + 1] = NL
              /\ IsLabel(SubSeq(t, i + 1, k))
              /\ \E j \in (k + 2)..Len(t) : t[j] = FENCE

\* a text holds a "$SHELL:" followed, after whitespace only, by a character
\* that is not a newline
HasShellLine(t) ==
    \E i \in 1..Len(t) :
        /\ t[i] = SHELL
        /\ \E j \in (i + 1)..Len(t) :
              /\ t[j] # NL
              /\ \A m \in (i + 1)..(j - 1) : IsSpace(t[m])

\* C10: a reply with no labeled fenced block and no "$SHELL:" line is still
\* executed: the result is a success with an empty log and no error, chat
\* returns the raw reply and nothing else, no file is touched and no command
\* is run.
C10_EmptyDirectiveTurn ==
    (pc = "Done" /\ ~HasLabeledBlock(ai_response) /\ ~HasShellLine(ai_response)) =>
        /\ code_blocks = <<>> /\ shell_commands = <<>>
        /\ result = ExecutionResult(TRUE, <<>>, None)
        /\ returned = ai_response
        /\ effects = <<>>
        /\ fs = fs0

\* such a turn ends, its reply holding prose and a fence without a label
C10_Witness ==
    /\ pc = "Done"
    /\ ~HasLabeledBlock(ai_response) /\ ~HasShellLine(ai_response)
    /\ Count(ai_response, FENCE) = 2
    /\ result.success

\* every match of code_pattern in a text, left to right: the label, the
\* trimmed content and the indexes of the two fences
RECURSIVE BlockMatches(_, _)
BlockMatches(t, i) ==
    IF i > Len(t) THEN <<>>
    ELSE LET k == IF t[i] = FENCE THEN LabelEnd(t, i) ELSE 0
             c == IF k > 0 THEN FindTok(t, FENCE, k + 2) ELSE 0
         IN  IF c > 0
             THEN <<[filename |-> SubSeq(t, i + 1, k),
                     code |-> Strip(SubSeq(t, k + 2, c - 1)),
                     open |-> i, close |-> c]>> \o BlockMatches(t, c + 1)
             ELSE BlockMatches(t, i + 1)

\* the index of the last match that carries the label
LastMatchOf(B, filename) ==
    CHOOSE i \in 1..Len(B) :
        /\ B[i].filename = filename
        /\ \A j \in (i + 1)..Len(B) : B[j].filename # filename

\* every label of the matches of text t is once in blocks, with the content
\* of its last match, and blocks has no other label
LastBlockWins(t, blocks) ==
    LET B == BlockMatches(t, 1)
    IN  /\ \A n \in 1..Len(blocks) :
              \E i \in 1..Len(B) : B[i].filename = blocks[n].filename
        /\ \A i \in 1..Len(B) :
              LET name == B[i].filename
                  last == B[LastMatchOf(B, name)].code
              IN  /\ Cardinality({n \in 1..Len(blocks) :
                                     blocks[n].filename = name}) = 1
                  /\ \A n \in 1..Len(blocks) :
                        blocks[n].filename = name => blocks[n].code = last

\* C11: however many fenced blocks of the reply carry a label, the parsed
\* directives hold the label once, with the content of its last block, and
\* they stay so through the turn; the file is opened at most once in the
\* turn, and once written it holds that content.
C11_LastBlockOfLabelWins ==
    /\ [][/\ EntersExecutor => LastBlockWins(ai_response', code_blocks')
          /\ ParsedFixed]_vars
    /\ [](InExecutor =>
             \A n \in 1..Len(code_blocks) :
                 LET name == code_blocks[n].filename
                 IN  /\ Cardinality({k \in 1..Len(effects) :
                                        /\ effects[k].kind \in {"write", "write raised"}
                                        /\ effects[k].what = name}) <= 1
                     /\ \A k \in 1..Len(effects) :
                           (effects[k].kind = "write" /\ effects[k].what = name) =>
                               FileContent(fs, name) = code_blocks[n].code)

\* a reply with two blocks labeled a, of different content, has been executed
C11_Witness ==
    /\ pc = "Done"
    /\ ai_response = Join(<<SegBlockA, SegProse, SegBlockA2>>)
    /\ Len(BlockMatches(ai_response, 1)) = 2
    /\ code_blocks = <<[filename |-> <<"a">>, code |-> <<"y">>]>>
    /\ Len(effects) = 1 /\ effects[1].kind = "write"
    /\ fs[<<"a">>] = <<"y">>

\* C12: when a command is invoked, every file of the turn has been written
\* and none of the writes raised; no file is opened after a command.
C12_WritesPrecedeCommands ==
    InExecutor =>
    \A k \in 1..Len(effects) :
        effects[k].kind \in {"run", "run raised"} =>
            /\ Cardinality({i \in 1..(k - 1) : effects[i].kind = "write"})
                  = Len(code_blocks)
            /\ \A i \in 1..Len(code_blocks) :
                  /\ effects[i].kind = "write"
                  /\ effects[i].what = code_blocks[i].filename
            /\ \A i \in 1..Len(effects) : effects[i].kind # "write raised"
            /\ \A i \in (k + 1)..Len(effects) :
                  effects[i].kind \in {"run", "run raised"}

\* two files were written, then two commands run
C12_Witness ==
    /\ pc = "Done"
    /\ Len(effects) = 4
    /\ effects[1].kind = "write" /\ effects[2].kind = "write"
    /\ effects[3].kind = "run" /\ effects[4].kind = "run"
    /\ FindTok(ai_response, SHELL, 1) < FindTok(ai_response, FENCE, 1)

\* the moves of pc that a turn may make
PcMoves ==
    {<<"Idle", "AwaitingCompletion">>, <<"AwaitingCompletion", "Parsing">>,
     <<"AwaitingCompletion", "Failed">>, <<"Parsing", "Executing">>,
     <<"Executing", "Executing">>, <<"Executing", "Done">>,
     <<"Done", "Idle">>, <<"Failed", "Idle">>}

PcStep ==
    /\ <<pc, pc'>> \in PcMoves
    /\ pc' = "Done" => result' # NoResult
    /\ (user_input' # None /\ user_input' # user_input) => pc = "Idle"
    /\ Len(history') > Len(history) => pc \in {"Idle", "Executing"}

\* C13: a turn goes Idle, AwaitingCompletion, Parsing, Executing, Done, or
\* from AwaitingCompletion to Failed; Done is entered only with the
\* executor's result; a turn starts only from Idle; and, the calls
\* returning, a turn that has started reaches Done or Failed and then Idle.
C13_TurnStateMachine ==
    /\ [][PcStep]_vars
    /\ (pc = "AwaitingCompletion") ~> (pc \in {"Done", "Failed"})
    /\ (pc \in {"Done", "Failed"}) ~> (pc = "Idle")

\* the agent is back in Idle after a failed and a completed turn
C13_Witness ==
    /\ pc = "Idle"
    /\ Len(history) = 4
    /\ history[3].role = "user" /\ history[4].role = "assistant"
    /\ DOMAIN fs # {}


\* C14: while the transport is being invoked, the messages it was given
\* are the whole history in creation order: every message that was there
\* when the turn began (those of failed turns included), then the user
\* message of this turn as the last entry
C14_RequestCarriesFullHistory ==
    pc = "AwaitingCompletion" =>
        /\ request = history0 \o <<Message("user", user_input)>>
        /\ request = history
        /\ Last(request) = Message("user", user_input)

\* the request of a turn that follows a turn whose transport call failed
C14_Witness ==
    /\ pc = "AwaitingCompletion"
    /\ Len(request) = 3
    /\ request[2].role = "user" /\ request[3].role = "user"
    /\ Len(history0) = 2

IsSuffix(s, t) == Len(s) <= Len(t) /\ SubSeq(t, Len(t) - Len(s) + 1, Len(t)) = s

\* C15: when a command exits with a non-zero status, the log of the result
\* holds what the earlier commands printed and, when it is not empty, what
\* the failing command printed on standard output, as its last line; what it
\* printed on standard error is in the error and nowhere in the log.
C15_FailingCommandOutputSplit ==
    InExecutor =>
    \A k \in 1..Len(effects) :
        (effects[k].kind = "run" /\ effects[k].returncode # 0) =>
            /\ result # NoResult
            /\ result.output = Join(LogOf(effects))
            /\ effects[k].stdout # <<>> =>
                   IsSuffix(<<NL>> \o OutputHeader \o <<NL>> \o effects[k].stdout,
                            result.output)
            /\ \A i \in 1..(k - 1) :
                   (effects[i].kind = "run" /\ effects[i].stdout # <<>>) =>
                       Contains(result.output,
                                OutputHeader \o <<NL>> \o effects[i].stdout \o <<NL>>)
            /\ IsSuffix(<<"Error: ">> \o completed.stderr, result.error)
            /\ Count(result.error, "e") = Len(completed.stderr)
            /\ Count(result.output, "e") = 0
            /\ \A i \in 1..Len(output_lines) : Count(output_lines[i], "e") = 0

\* the second command printed on both streams and failed, after a first one
\* that printed and succeeded
C15_Witness ==
    /\ pc = "Done"
    /\ Len(effects) = 2
    /\ effects[1].kind = "run" /\ effects[1].returncode = 0
    /\ effects[1].stdout = StdoutOf(1)
    /\ effects[2].kind = "run" /\ effects[2].returncode # 0
    /\ effects[2].stdout = StdoutOf(2)
    /\ completed.stderr = StderrOf(2)
    /\ ~result.success

\* the names of the file directives of the turn
BlockNames == {code_blocks[i].filename : i \in 1..Len(code_blocks)}

\* the first block the loop over the blocks did not reach
FirstUnreached ==
    IF effects # <<>> /\ Last(effects).kind = "write raised"
    THEN nWritten + 2 ELSE nWritten + 1

\* C16: when the executor has returned a failure, every file the turn wrote
\* before the failure holds what the turn wrote, every file of a block that
\* was not reached is as it was when the turn began, and so is every file
\* the turn has no block for.
C16_NoRollback ==
    (InExecutor /\ result # NoResult /\ ~result.success) =>
        /\ \A i \in 1..nWritten :
               FileContent(fs, code_blocks[i].filename) = code_blocks[i].code
        /\ \A i \in FirstUnreached..Len(code_blocks) :
               FileContent(fs, code_blocks[i].filename)
                   = FileContent(fs0, code_blocks[i].filename)
        /\ \A n \in (DOMAIN fs \cup DOMAIN fs0) \ BlockNames :
               FileContent(fs, n) = FileContent(fs0, n)

\* a second turn rewrote one file, failed on the next, and left a third,
\* which the first turn had written, with its old content
C16_Witness ==
    /\ pc = "Done" /\ ~result.success
    /\ Len(code_blocks) = 3 /\ nWritten = 1
    /\ Last(effects).kind = "write raised"
    /\ FileContent(fs0, code_blocks[1].filename) # None
    /\ FileContent(fs, code_blocks[1].filename) # FileContent(fs0, code_blocks[1].filename)
    /\ FileContent(fs, code_blocks[3].filename) # None
    /\ FileContent(fs, code_blocks[3].filename) # code_blocks[3].code

\* the matches of shell_pattern a left-to-right scan from index i finds:
\* the leftmost match, then the matches after its line
RECURSIVE RealMatches(_, _)
RealMatches(t, i) ==
    LET C == {p \in ShellMatches(t) : p >= i}
    IN  IF C = {} THEN {}
        ELSE LET p == Nth(C, 1)
             IN  {p} \cup RealMatches(t, ShellGroup(t, p)[2] + 1)

\* a "$SHELL:" between the fences of a labeled block of text t is part of
\* the block's content, which is the content of its label in blocks when the
\* block is the last of the label; when the scan for commands matches there,
\* the command is in cmds at its rank among all the matches
ShellLineInBlock(t, blocks, cmds) ==
    LET B == BlockMatches(t, 1)
        R == RealMatches(t, 1)
        Rank(p) == Cardinality({q \in R : q <= p})
    IN  /\ Len(cmds) = Cardinality(R)
        /\ \A j \in 1..Len(B) : \A p \in ShellPositions(t) :
               (B[j].open < p /\ p < B[j].close) =>
                   /\ Contains(B[j].code, <<SHELL>>)
                   /\ j = LastMatchOf(B, B[j].filename) =>
                          \E i \in 1..Len(blocks) :
                              /\ blocks[i].filename = B[j].filename
                              /\ blocks[i].code = B[j].code
                   /\ p \in R => cmds[Rank(p)] = CommandAt(t, p)

\* C17: the commands are the matches of the "$SHELL:" pattern over the whole
\* reply; a "$SHELL:" between the fences of a labeled block is part of that
\* block's content, and when the scan for commands matches there it is a
\* command too, at its rank among all the matches; the file is written with
\* that content and the commands are run in the order of the list.
C17_ShellLineInsideBlock ==
    /\ [][/\ EntersExecutor =>
                ShellLineInBlock(ai_response', code_blocks', shell_commands')
          /\ ParsedFixed]_vars
    /\ [](InExecutor =>
             /\ Len(Runs) <= Len(shell_commands)
             /\ \A i \in 1..Len(Runs) : Runs[i].what = shell_commands[i]
             /\ \A k \in 1..Len(effects) :
                    effects[k].kind = "write" =>
                        \E n \in 1..Len(code_blocks) :
                            /\ code_blocks[n].filename = effects[k].what
                            /\ FileContent(fs, effects[k].what) = code_blocks[n].code)

\* a reply whose second "$SHELL:" line lies inside the block of b.a: the
\* file holds the line and the three commands ran in the order of the text
C17_Witness ==
    /\ pc = "Done"
    /\ ai_response = Join(<<SegShellX, SegBlockShell, SegShellX>>)
    /\ FileContent(fs, <<"b", DOT, "a">>) = <<SHELL, SP, "y">>
    /\ Len(Runs) = 3
    /\ Runs[1].what = <<"x">> /\ Runs[2].what = <<"y">> /\ Runs[3].what = <<"x">>

\* the number of messages of a role
RoleCount(h, role) == Cardinality({i \in 1..Len(h) : h[i].role = role})

\* C18: in every state, each assistant message of the history comes right
\* after a user message, and there are at most as many assistant messages as
\* user messages.
C18_AssistantFollowsUser ==
    /\ \A i \in 1..Len(history) :
           history[i].role = "assistant" => (i > 1 /\ history[i - 1].role = "user")
    /\ RoleCount(history, "assistant") <= RoleCount(history, "user")

\* two user messages in a row: the turn after a failed transport call has
\* ended with its assistant message
C18_Witness ==
    /\ pc = "Done"
    /\ Len(history) = 4
    /\ history[2].role = "user" /\ history[3].role = "user"
    /\ history[4].role = "assistant"

\* the index of the first match that carries the label
FirstMatchOf(B, filename) ==
    CHOOSE i \in 1..Len(B) :
        /\ B[i].filename = filename
        /\ \A j \in 1..(i - 1) : B[j].filename # filename

\* the calls of open() of the turn, in order
Writes == EffectsOf(effects, {"write", "write raised"})

\* blocks holds the labels of the matches of text t, each once, in the order
\* in which they first occur, each with the content of its last match
FirstOccurrenceOrder(t, blocks) ==
    LET B == BlockMatches(t, 1)
    IN  /\ \A n \in 1..Len(blocks) :
               \E j \in 1..Len(B) :
                   /\ B[j].filename = blocks[n].filename
                   /\ B[LastMatchOf(B, B[j].filename)].code = blocks[n].code
        /\ \A j \in 1..Len(B) :
               \E n \in 1..Len(blocks) : blocks[n].filename = B[j].filename
        /\ \A m, n \in 1..Len(blocks) :
               m < n => FirstMatchOf(B, blocks[m].filename)
                            < FirstMatchOf(B, blocks[n].filename)

\* C19: the parsed directives are the labels of the reply in the order in
\* which they first occur, each once, with the content of the last block of
\* the label; the files are opened in that order, one per directive, a file
\* that was written holds that content, and a turn in which no write raised
\* opens them all.
C19_WriteOrderIsFirstOccurrence ==
    /\ [][/\ EntersExecutor => FirstOccurrenceOrder(ai_response', code_blocks')
          /\ ParsedFixed]_vars
    /\ [](InExecutor =>
             /\ Len(Writes) <= Len(code_blocks)
             /\ \A i \in 1..Len(Writes) :
                    /\ Writes[i].what = code_blocks[i].filename
                    /\ Writes[i].kind = "write" =>
                           FileContent(fs, Writes[i].what) = code_blocks[i].code
             /\ (Runs # <<>> \/ (result # NoResult /\ result.success)) =>
                    Len(Writes) = Len(code_blocks))

\* the label a occurs first and last, b.a between: a was written first,
\* with the content of its last block, then b.a
C19_Witness ==
    /\ pc = "Done"
    /\ ai_response = Join(<<SegBlockA, SegBlockShell, SegBlockA2>>)
    /\ Len(Writes) = 2
    /\ Writes[1].what = <<"a">> /\ Writes[2].what = <<"b", DOT, "a">>
    /\ Writes[1].kind = "write" /\ Writes[2].kind = "write"
    /\ FileContent(fs, <<"a">>) = <<"y">>

\* C20: in every state, from construction on, the history begins with the
\* system message of __init__ and holds no other system message.
C20_OneSystemMessageFirst ==
    /\ Len(history) >= 1
    /\ history[1] = Message("system", SystemPrompt)
    /\ \A i \in 2..Len(history) : history[i].role \in {"user", "assistant"}
    /\ RoleCount(history, "system") = 1

\* a successful turn and then a failed one have left the system message
\* where it was
C20_Witness ==
    /\ pc = "Failed"
    /\ Len(history) = 4
    /\ history[1].role = "system"
    /\ history[3].role = "assistant" /\ history[4].role = "user"
====
